---- MODULE Spec2Model ----
(***************************************************************************)
(* A model of nest/nest.py: the Nest session manager (token state, the     *)
(* _request retry loop, __reauthorize, __save_token), the device cache     *)
(* (_devices) and the command path (Thermostat.heat_setpoint -> _set ->    *)
(* _put -> _request).                                                      *)
(*                                                                         *)
(* Collaborators are modelled by their outcomes: OAuth2Session.request     *)
(* answers with a response or raises TokenExpiredError / a connection      *)
(* error, refresh_token returns a new token or raises, open()/json.dump    *)
(* succeed or raise, time.time() is a non-decreasing clock.                *)
(*                                                                         *)
(* Strings that the code takes apart (paths, device names) are sequences   *)
(* of tokens in which "/" is a token of its own; tokens are numbered       *)
(* naturals, 0 stands for "no token" (an empty token dict).                *)
(***************************************************************************)
EXTENDS Integers, Sequences, FiniteSets, TLC

\* ---------------------------------------------------------------- bounds
CachePeriod == 1
MaxTime == 2 * CachePeriod + 2
MaxTokens == 3
MaxDevices == 1
MaxInventory == 3

Threads == {1, 2}

\* ------------------------------------------------------ module constants
API_URL == <<"https://smartdevicemanagement.googleapis.com/v1/enterprises/", "{project_id}", "/devices">>
THERMOSTAT_TYPE == "sdm.devices.types.THERMOSTAT"

None == [None |-> TRUE]

ProjectId == "project-id"

\* str.format(project_id=...) on a tokenised template
Format(template, project_id) ==
  [i \in 1..Len(template) |->
     IF template[i] = "{project_id}" THEN project_id ELSE template[i]]

\* ------------------------------------------------------------ input sets
DeviceNames == { <<"123">>, <<"device", "/", "123">> }

DeviceRecords ==
  { [name |-> <<"device", "/", "123">>, type |-> THERMOSTAT_TYPE] }

Inventories == UNION { [1..n -> DeviceRecords] : n \in 0..MaxDevices }

\* inventories of several devices of mixed types, for the accessors
FilterRecords ==
  DeviceRecords \cup
    { [name |-> <<"device", "/", "456">>, type |-> THERMOSTAT_TYPE],
      [name |-> <<"cam">>, type |-> "sdm.devices.types.CAMERA"] }

FilterInventories == UNION { [1..n -> FilterRecords] : n \in 0..MaxInventory }

\* parsed JSON bodies: a device list, or an object without a 'devices' key
JsonBodies == { [devices |-> inv] : inv \in Inventories } \cup { [error |-> "failed"] }

OkResponses == { [status_code |-> 200, json |-> b] : b \in JsonBodies }
UnauthorizedResponses == { [status_code |-> 401, json |-> [error |-> "failed"]] }
ErrorResponses ==
  { [status_code |-> s, json |-> [error |-> "failed"]] : s \in {302, 400, 403, 404, 500} }

SetpointValues == {20, 21}

\* -------------------------------------------------------- pure functions

\* str.split('/') on a token sequence: the list of pieces between "/" tokens
RECURSIVE Split(_)
Split(s) ==
  IF s = <<>> THEN << <<>> >>
  ELSE LET rest == Split(Tail(s)) IN
       IF Head(s) = "/" THEN << <<>> >> \o rest
       ELSE << <<Head(s)>> \o rest[1] >> \o Tail(rest)

\* json.dumps of the command dict built by the heat_setpoint setter
json_dumps(d) ==
  << "{", "\"command\"", ":", d.command, ",", "\"params\"", ":",
     "{", "\"heatCelsius\"", ":", d.params.heatCelsius, "}", "}" >>

api_url == Format(API_URL, ProjectId)

\* NestBase._set: the path handed to _put
SetPath(name) == <<"/">> \o name \o <<":executeCommand">>

\* _put taking the piece after the leading '/' instead of the last one
PutPath_FirstPiece(path) ==
  LET pieces == Split(path) IN <<"/">> \o pieces[2]

\* Nest._put: keeps the last '/'-separated piece of the path
PutPath(path) ==
  LET pieces == Split(path) IN <<"/">> \o pieces[Len(pieces)]

\* the dict built by Thermostat.heat_setpoint's setter
SetHeatCommand(value) ==
  [command |-> "sdm.devices.commands.ThermostatMode.SetHeat",
   params |-> [heatCelsius |-> value]]

\* OAuth2Session(client_id, token=...) / OAuth2Session(client_id, redirect_uri=..., scope=...)
Thermostat(name) == [class |-> "Thermostat", name |-> name]

\* the accessor without its type test
thermostats_AnyType(devices) ==
  [i \in 1..Len(devices) |-> Thermostat(devices[i].name)]

\* Nest.thermostats, lines 415-418, on the list self._devices returned
thermostats(devices) ==
  LET names == SelectSeq(devices, LAMBDA device : device.type = THERMOSTAT_TYPE)
  IN [i \in 1..Len(names) |-> Thermostat(names[i].name)]

OAuth2Session(tok) == [token |-> tok]

\* exceptions and return values, as seen by the caller of a function
Return(v) == [kind |-> "return", value |-> v]
Raise(e, resp, m) == [kind |-> "raise", exc |-> e, response |-> resp, msg |-> m]
APIError(r) == Raise("APIError", r, "")
AuthorizationError(r, m) == Raise("AuthorizationError", r, m)
Pending == [kind |-> "pending"]

\* a cache file that does not exist (open() raises)
NoFile == << "ENOENT" >>

\* json.dump(token, fd): the text written for token dict n
json_dump(token) == << "{", "\"access_token\"", ":", token, "}" >>

\* json.load(fd) succeeds: the text is an empty object or a token object
CanParse(text) ==
  \/ text = << "{", "}" >>
  \/ /\ Len(text) = 5
     /\ text[1] = "{" /\ text[2] = "\"access_token\"" /\ text[3] = ":" /\ text[5] = "}"

\* json.load(fd) on a text it can parse: the token dict, 0 for the empty dict
json_load(text) == IF Len(text) = 5 THEN text[4] ELSE 0

\* ----------------------------------------------------------------- state
VARIABLES
  client,          \* Nest._client: None or an OAuth2Session
  callback,        \* whether Nest._reautherize_callback is not None
  callers,         \* who uses the manager: "one" caller, or two that are
                   \* "locked" (one mutex around every operation) or "free"
  cachePath,       \* whether Nest._access_token_cache_file is not None
  cacheFile,       \* content of the token cache file: NoFile or a text
  last_update,     \* Nest._last_update
  devices_value,   \* Nest._devices_value
  clock,           \* time.time()
  issued,          \* the last token handed out by the token endpoint
  frame            \* per caller: position and locals of the running operation

vars == <<client, callback, callers, cachePath, cacheFile, last_update, devices_value,
          clock, issued, frame>>

manager == <<client, callback, callers, cachePath, cacheFile, last_update, devices_value>>

IdleFrame ==
  [pc |-> "idle", op |-> "none", verb |-> "", url |-> <<>>, data |-> None,
   attempt |-> 0, token |-> 0, ret |-> Pending, out |-> Pending, log |-> <<>>,
   now |-> 0, fetches |-> 0, name |-> <<>>, value |-> 0, older |-> {},
   old |-> [client |-> None, cacheFile |-> NoFile, last_update |-> 0, devices_value |-> <<>>]]

\* Nest.__init__, lines 320-328: the token read from the cache file; every
\* failure (no path, no file, not JSON) is caught and leaves no token
LoadToken(path, file) ==
  IF path /\ file # NoFile /\ CanParse(file) THEN json_load(file) ELSE 0

\* __init__ without the `if access_token:` test of line 329
NewClient_AlwaysSession(access_token, path, file) ==
  OAuth2Session(IF access_token # 0 THEN access_token ELSE LoadToken(path, file))

\* Nest.__init__, lines 320-330: the session built from the supplied token
\* or else from the loaded one, if that token is truthy
NewClient(access_token, path, file) ==
  LET tok == IF access_token # 0 THEN access_token ELSE LoadToken(path, file)
  IN IF tok # 0 THEN OAuth2Session(tok) ELSE None

\* what may be in a cache file before the program ever wrote it: nothing, an
\* empty file, an empty JSON object, a saved token
InitialFiles == { NoFile, <<>>, <<"{", "}">>, json_dump(1) }

\* Nest.__init__: the state after construction
InitManager ==
  /\ \E access_token \in {0, 1}, path \in BOOLEAN, file \in InitialFiles, cb \in BOOLEAN :
       /\ cachePath = path
       /\ cacheFile = (IF path THEN file ELSE NoFile)
       /\ callback = cb
       /\ client = NewClient(access_token, path, file)
  /\ last_update = 0
  /\ devices_value = <<>>
  /\ clock \in 0..MaxTime
  /\ issued = 1

Init ==
  /\ InitManager
  /\ callers = "one"
  /\ frame = [t \in Threads |-> IdleFrame]

Snapshot ==
  [client |-> client, cacheFile |-> cacheFile, last_update |-> last_update,
   devices_value |-> devices_value]

\* caller t may take a step: the only caller is caller 1; under the mutex
\* no other caller is inside an operation
Runnable(t) ==
  /\ callers = "one" => t = 1
  /\ callers = "locked" => \A u \in Threads \ {t} : frame[u].pc \in {"idle", "done"}

At(t, pc) == Runnable(t) /\ frame[t].pc = pc

\* a caller starts an operation when it is in none; two callers make one
\* operation each
CanStart(t) ==
  /\ Runnable(t)
  /\ frame[t].pc = "idle" \/ (frame[t].pc = "done" /\ callers = "one")

\* entry of Nest._request (lines 360-363)
Enter_request(operation, v, path, d) ==
  [IdleFrame EXCEPT !.pc = "request", !.op = operation, !.verb = v,
     !.url = api_url \o path,
     !.data = (IF d # None THEN json_dumps(d) ELSE None),
     !.attempt = 0, !.now = clock,
     !.fetches = (IF operation = "devices" THEN 1 ELSE 0),
     !.old = Snapshot]

HttpEvent(t, outcome, r) ==
  [ev |-> "http", verb |-> frame[t].verb, url |-> frame[t].url, data |-> frame[t].data,
   outcome |-> outcome, response |-> r, attempt |-> frame[t].attempt + 1]

\* time.time() advances
Tick ==
  /\ clock < MaxTime
  /\ clock' = clock + 1
  /\ UNCHANGED <<manager, issued, frame>>

\* ------------------------------------------------ Nest._request, the loop
\* One iteration of `while True` (lines 364-390): attempt += 1, then either the
\* HTTP call on the session or, without a session, __reauthorize.

Attempted(t, outcome, r, next, result) ==
  frame' = [frame EXCEPT ![t] =
              [@ EXCEPT !.attempt = @ + 1,
                        !.log = Append(@, HttpEvent(t, outcome, r)),
                        !.pc = next,
                        !.ret = result,
                        !.older = { u \in Threads \ {t} :
                                      /\ frame[u].pc = "finish"
                                      /\ frame[u].op = "devices"
                                      /\ frame[u].ret.kind = "return" }]]

\* a 200 that is not returned but falls through like a 401
HttpOk_FallsThrough(t) ==
  /\ At(t, "request")
  /\ client # None
  /\ \E r \in OkResponses : Attempted(t, "response", r, "reauthorize", Pending)
  /\ UNCHANGED <<manager, clock, issued>>

\* r.status_code == 200: return r.json()
HttpOk(t) ==
  /\ At(t, "request")
  /\ client # None
  /\ \E r \in OkResponses : Attempted(t, "response", r, "finish", Return(r.json))
  /\ UNCHANGED <<manager, clock, issued>>

\* an error status that is not raised but falls through like a 401
HttpError_FallsThrough(t) ==
  /\ At(t, "request")
  /\ client # None
  /\ \E r \in ErrorResponses : Attempted(t, "response", r, "reauthorize", Pending)
  /\ UNCHANGED <<manager, clock, issued>>

\* r.status_code not in (200, 401): raise APIError(r)
HttpError(t) ==
  /\ At(t, "request")
  /\ client # None
  /\ \E r \in ErrorResponses : Attempted(t, "response", r, "finish", APIError(r))
  /\ UNCHANGED <<manager, clock, issued>>

\* r.status_code == 401: neither branch is taken, control leaves the try
\* statement and reaches self.__reauthorize() (line 390)
Http401(t) ==
  /\ At(t, "request")
  /\ client # None
  /\ \E r \in UnauthorizedResponses : Attempted(t, "response", r, "reauthorize", Pending)
  /\ UNCHANGED <<manager, clock, issued>>

\* the session raises TokenExpiredError; it does so only when it holds a token
HttpExpired(t) ==
  /\ At(t, "request")
  /\ client # None
  /\ client.token # 0
  /\ Attempted(t, "TokenExpiredError", None, "refresh_token", Pending)
  /\ UNCHANGED <<manager, clock, issued>>

\* any other exception of the transport is not caught by _request
HttpConnectionError(t) ==
  /\ At(t, "request")
  /\ client # None
  /\ Attempted(t, "ConnectionError", None, "finish", Raise("ConnectionError", None, ""))
  /\ UNCHANGED <<manager, clock, issued>>

\* `if self._client:` is false: straight to self.__reauthorize()
NoClient(t) ==
  /\ At(t, "request")
  /\ client = None
  /\ frame' = [frame EXCEPT ![t] = [@ EXCEPT !.attempt = @ + 1, !.pc = "reauthorize"]]
  /\ UNCHANGED <<manager, clock, issued>>

\* except TokenExpiredError: self._client.refresh_token(...) returns a new
\* token, which the session also stores as its own
RefreshOk(t) ==
  /\ At(t, "refresh_token")
  /\ client # None
  /\ client.token # 0
  /\ issued < MaxTokens
  /\ issued' = issued + 1
  /\ client' = [client EXCEPT !.token = issued + 1]
  /\ frame' = [frame EXCEPT ![t] =
                 [@ EXCEPT !.token = issued + 1,
                           !.log = Append(@, [ev |-> "refresh_token", ok |-> TRUE]),
                           !.pc = "save_token"]]
  /\ UNCHANGED <<callback, callers, cachePath, cacheFile, last_update, devices_value, clock>>

\* refresh_token raises (grant rejected, network): not caught by _request
RefreshFail(t) ==
  /\ At(t, "refresh_token")
  /\ frame' = [frame EXCEPT ![t] =
                 [@ EXCEPT !.log = Append(@, [ev |-> "refresh_token", ok |-> FALSE]),
                           !.ret = Raise("OAuth2Error", None, ""),
                           !.pc = "finish"]]
  /\ UNCHANGED <<manager, clock, issued>>

\* the repeated-expiry test firing on the first expiry already
AfterSave_AlwaysRaise(fr) ==
  [fr EXCEPT !.ret = AuthorizationError(None, "Repeated TokenExpiredError"),
             !.pc = "finish"]

\* the repeated-expiry test missing
AfterSave_NeverRaise(fr) == [fr EXCEPT !.pc = "request"]

\* lines 387-389, after the token was saved
AfterSave(fr) ==
  IF fr.attempt > 1
  THEN [fr EXCEPT !.ret = AuthorizationError(None, "Repeated TokenExpiredError"),
                  !.pc = "finish"]
  ELSE [fr EXCEPT !.pc = "request"]

\* Nest.__save_token succeeds
SaveOk(t) ==
  /\ At(t, "save_token")
  /\ cachePath
  /\ cacheFile' = json_dump(frame[t].token)
  /\ frame' = [frame EXCEPT ![t] =
                 AfterSave([@ EXCEPT !.log = Append(@, [ev |-> "save_token", ok |-> TRUE])])]
  /\ UNCHANGED <<client, callback, callers, cachePath, last_update, devices_value, clock, issued>>

\* a failed save that is swallowed: the retry goes ahead
SaveNoPath_Swallowed(t) ==
  /\ At(t, "save_token")
  /\ ~cachePath
  /\ frame' = [frame EXCEPT ![t] =
                 AfterSave([@ EXCEPT !.log = Append(@, [ev |-> "save_token", ok |-> FALSE])])]
  /\ UNCHANGED <<manager, clock, issued>>

\* Nest.__save_token with no cache file configured: open(None, 'w') raises
SaveNoPath(t) ==
  /\ At(t, "save_token")
  /\ ~cachePath
  /\ frame' = [frame EXCEPT ![t] =
                 [@ EXCEPT !.log = Append(@, [ev |-> "save_token", ok |-> FALSE]),
                           !.ret = Raise("TypeError", None, ""),
                           !.pc = "finish"]]
  /\ UNCHANGED <<manager, clock, issued>>

\* Nest.__save_token fails on the file: open() raises and the file is as it
\* was, or json.dump raises after open() truncated it
SaveOSError(t) ==
  /\ At(t, "save_token")
  /\ cachePath
  /\ \E content \in {cacheFile, <<>>} : cacheFile' = content
  /\ frame' = [frame EXCEPT ![t] =
                 [@ EXCEPT !.log = Append(@, [ev |-> "save_token", ok |-> FALSE]),
                           !.ret = Raise("OSError", None, ""),
                           !.pc = "finish"]]
  /\ UNCHANGED <<client, callback, callers, cachePath, last_update, devices_value, clock, issued>>

\* ------------------------------------------------------ Nest.__reauthorize
\* the callback test made after the new session was stored
ReauthorizeNoCallback_SessionFirst(t) ==
  /\ At(t, "reauthorize")
  /\ ~callback
  /\ client' = OAuth2Session(0)
  /\ frame' = [frame EXCEPT ![t] =
                 [@ EXCEPT !.log = Append(@, [ev |-> "reauthorize", ok |-> FALSE]),
                           !.ret = AuthorizationError(None, "No callback to handle OAuth URL"),
                           !.pc = "finish"]]
  /\ UNCHANGED <<callback, callers, cachePath, cacheFile, last_update, devices_value, clock, issued>>

\* line 339-340: no callback
ReauthorizeNoCallback(t) ==
  /\ At(t, "reauthorize")
  /\ ~callback
  /\ frame' = [frame EXCEPT ![t] =
                 [@ EXCEPT !.log = Append(@, [ev |-> "reauthorize", ok |-> FALSE]),
                           !.ret = AuthorizationError(None, "No callback to handle OAuth URL"),
                           !.pc = "finish"]]
  /\ UNCHANGED <<manager, clock, issued>>

\* lines 341-344: the new, token-less session is stored in self._client, then
\* evaluating the argument AUTHORIZE_URL.format(self.project_id) raises
\* AttributeError (Nest has _project_id and no project_id), so the callback,
\* fetch_token and __save_token of lines 349-357 are never reached
ReauthorizeAttributeError(t) ==
  /\ At(t, "reauthorize")
  /\ callback
  /\ client' = OAuth2Session(0)
  /\ frame' = [frame EXCEPT ![t] =
                 [@ EXCEPT !.log = Append(@, [ev |-> "reauthorize", ok |-> FALSE]),
                           !.ret = Raise("AttributeError", None, "project_id"),
                           !.pc = "finish"]]
  /\ UNCHANGED <<callback, callers, cachePath, cacheFile, last_update, devices_value, clock, issued>>

\* ---------------------------------------------------------- Nest._devices
\* the staleness test with >= in place of >
Stale_NotStrict(now) == now >= last_update + CachePeriod

\* the staleness test of line 403
Stale(now) == now > last_update + CachePeriod

\* a read of the _devices property: fresh data is returned at once, stale
\* data starts self._request('GET', '')
Devices(t) ==
  /\ CanStart(t)
  /\ IF Stale(clock)
     THEN frame' = [frame EXCEPT ![t] = Enter_request("devices", "GET", <<>>, None)]
     ELSE frame' = [frame EXCEPT ![t] =
                      [IdleFrame EXCEPT !.pc = "done", !.op = "devices", !.now = clock,
                                        !.old = Snapshot,
                                        !.out = Return(devices_value)]]
  /\ UNCHANGED <<manager, clock, issued>>

HasDevices(ret) == ret.kind = "return" /\ "devices" \in DOMAIN ret.value

\* a fetch stored without its time stamp
DevicesStore_NoAdvance(t) ==
  /\ At(t, "finish")
  /\ frame[t].op = "devices"
  /\ HasDevices(frame[t].ret)
  /\ devices_value' = frame[t].ret.value.devices
  /\ frame' = [frame EXCEPT ![t] =
                 [@ EXCEPT !.pc = "done", !.out = Return(frame[t].ret.value.devices)]]
  /\ UNCHANGED <<client, callback, callers, cachePath, cacheFile, last_update, clock, issued>>

\* lines 405-406 and 411: the fetch returned a body with a 'devices' key
DevicesStore(t) ==
  /\ At(t, "finish")
  /\ frame[t].op = "devices"
  /\ HasDevices(frame[t].ret)
  /\ devices_value' = frame[t].ret.value.devices
  /\ last_update' = clock
  /\ frame' = [frame EXCEPT ![t] =
                 [@ EXCEPT !.pc = "done", !.out = Return(frame[t].ret.value.devices)]]
  /\ UNCHANGED <<client, callback, callers, cachePath, cacheFile, clock, issued>>

\* a failed fetch that still advances _last_update
DevicesAbsorb_Advance(t) ==
  /\ At(t, "finish")
  /\ frame[t].op = "devices"
  /\ ~HasDevices(frame[t].ret)
  /\ last_update' = clock
  /\ frame' = [frame EXCEPT ![t] = [@ EXCEPT !.pc = "done", !.out = Return(devices_value)]]
  /\ UNCHANGED <<client, callback, callers, cachePath, cacheFile, devices_value, clock, issued>>

\* lines 407-411: _request raised, or the body has no 'devices' key (KeyError)
DevicesAbsorb(t) ==
  /\ At(t, "finish")
  /\ frame[t].op = "devices"
  /\ ~HasDevices(frame[t].ret)
  /\ frame' = [frame EXCEPT ![t] = [@ EXCEPT !.pc = "done", !.out = Return(devices_value)]]
  /\ UNCHANGED <<manager, clock, issued>>

\* Nest.thermostats: the read of self._devices has returned, the list is
\* filtered and wrapped
Thermostats(t) ==
  /\ At(t, "done")
  /\ frame[t].op = "devices"
  /\ frame' = [frame EXCEPT ![t] =
                 [@ EXCEPT !.op = "thermostats",
                           !.out = Return(thermostats(frame[t].out.value))]]
  /\ UNCHANGED <<manager, clock, issued>>

\* --------------------- Thermostat.heat_setpoint = value -> _set -> _put
Set(t) ==
  /\ CanStart(t)
  /\ \E name \in DeviceNames, value \in SetpointValues :
       frame' = [frame EXCEPT ![t] =
                   [Enter_request("set", "POST", PutPath(SetPath(name)), SetHeatCommand(value))
                      EXCEPT !.name = name, !.value = value]]
  /\ UNCHANGED <<manager, clock, issued>>

\* a command that invalidates the device cache when it is done
SetDone_Invalidate(t) ==
  /\ At(t, "finish")
  /\ frame[t].op = "set"
  /\ last_update' = 0
  /\ frame' = [frame EXCEPT ![t] = [@ EXCEPT !.pc = "done", !.out = frame[t].ret]]
  /\ UNCHANGED <<client, callback, callers, cachePath, cacheFile, devices_value, clock, issued>>

\* _request returned or raised: so does _set
SetDone(t) ==
  /\ At(t, "finish")
  /\ frame[t].op = "set"
  /\ frame' = [frame EXCEPT ![t] = [@ EXCEPT !.pc = "done", !.out = frame[t].ret]]
  /\ UNCHANGED <<manager, clock, issued>>

\* ------------------------------------------------------------ behaviours
\* the steps of Nest._request
RequestStep(t) ==
  \/ HttpOk(t) \/ HttpError(t) \/ Http401(t) \/ HttpExpired(t) \/ HttpConnectionError(t)
  \/ NoClient(t)
  \/ RefreshOk(t) \/ RefreshFail(t)
  \/ SaveOk(t) \/ SaveNoPath(t) \/ SaveOSError(t)
  \/ ReauthorizeNoCallback(t) \/ ReauthorizeAttributeError(t)

Step(t) ==
  \/ Devices(t) \/ DevicesStore(t) \/ DevicesAbsorb(t)
  \/ Set(t) \/ SetDone(t)
  \/ RequestStep(t)

\* Init admits one caller: the synchronous, single-threaded use
Next == Tick \/ \E t \in Threads : Step(t)

Spec == Init /\ [][Next]_vars

\* every transport call, token refresh, file write and callback invocation
\* returns: a caller inside _request takes its next step
InitLive == Init /\ clock = MaxTime

NextLive == \E t \in Threads : Step(t)

SpecLive == InitLive /\ [][NextLive]_vars /\ \A t \in Threads : WF_vars(RequestStep(t))

\* the program starts again: a new Nest is constructed with no token
\* supplied and the same cache file, callback and credentials
Reload ==
  /\ \A t \in Threads : frame[t].pc \in {"idle", "done"}
  /\ client' = NewClient(0, cachePath, cacheFile)
  /\ last_update' = 0
  /\ devices_value' = <<>>
  /\ frame' = [t \in Threads |-> [IdleFrame EXCEPT !.op = "__init__", !.old = Snapshot]]
  /\ UNCHANGED <<callback, callers, cachePath, cacheFile, clock, issued>>

\* commands sent in one run and the construction of the next
NextReload == Reload \/ \E t \in Threads : (Set(t) \/ SetDone(t) \/ RequestStep(t))

SpecReload == Init /\ [][NextReload]_vars

\* a manager that fetched an inventory at time 1, read at the end of the
\* validity window or just after it
InitFilter ==
  /\ \E access_token \in {0, 1}, path \in BOOLEAN, file \in InitialFiles, cb \in BOOLEAN :
       /\ cachePath = path
       /\ cacheFile = (IF path THEN file ELSE NoFile)
       /\ callback = cb
       /\ client = NewClient(access_token, path, file)
  /\ last_update = 1
  /\ devices_value \in FilterInventories
  /\ clock \in {1 + CachePeriod, 2 + CachePeriod}
  /\ issued = 1
  /\ callers = "one"
  /\ frame = [t \in Threads |-> IdleFrame]

\* reads of the thermostats accessor
NextFilter ==
  \E t \in Threads :
    \/ Devices(t) \/ DevicesStore(t) \/ DevicesAbsorb(t) \/ Thermostats(t)
    \/ RequestStep(t)

SpecFilter == InitFilter /\ [][NextFilter]_vars

\* two callers share one manager whose cache is stale; each reads the
\* inventory once, either under one mutex or with no serialization
InitConc ==
  /\ InitManager
  /\ clock = MaxTime
  /\ callers \in {"locked", "free"}
  /\ frame = [t \in Threads |-> IdleFrame]

NextConc ==
  \E t \in Threads :
    \/ Devices(t) \/ DevicesStore(t) \/ DevicesAbsorb(t)
    \/ RequestStep(t)

SpecConc == InitConc /\ [][NextConc]_vars

TypeOK ==
  /\ callback \in BOOLEAN /\ cachePath \in BOOLEAN
  /\ cacheFile \in InitialFiles \cup { json_dump(n) : n \in 1..MaxTokens }
  /\ callers \in {"one", "locked", "free"}
  /\ clock \in 0..MaxTime /\ last_update \in 0..MaxTime
  /\ devices_value \in Inventories \cup FilterInventories
  /\ issued \in 1..MaxTokens
  /\ \A t \in Threads : frame[t].attempt \in 0..3 /\ Len(frame[t].log) <= 7

\* ------------------------------------------------- reading a call's history
\* the HTTP calls / refreshes / reauthorizations of the call in frame fr
Https(fr) == SelectSeq(fr.log, LAMBDA e : e.ev = "http")
Refreshes(fr) == SelectSeq(fr.log, LAMBDA e : e.ev = "refresh_token")
Reauthorizations(fr) == SelectSeq(fr.log, LAMBDA e : e.ev = "reauthorize")

\* _request has returned or raised; fr.ret is what it returned or raised
Ended(fr) == fr.pc \in {"finish", "done"} /\ (fr.op = "set" \/ fr.fetches = 1)

Answered(e, statuses) == e.outcome = "response" /\ e.response.status_code \in statuses
Expired(e) == e.outcome = "TokenExpiredError"

\* the call started on a session, its first HTTP attempt raised
\* TokenExpiredError and the refresh that followed returned a token
ExpiredThenRefreshed(fr) ==
  /\ fr.old.client # None
  /\ Len(fr.log) >= 2
  /\ fr.log[1].ev = "http" /\ Expired(fr.log[1])
  /\ fr.log[2].ev = "refresh_token" /\ fr.log[2].ok

\* ------------------------------------------------------------------- C1
\* C1 as stated: on an active session, a token expiry on the first HTTP
\* attempt followed by a successful refresh makes _request issue two HTTP
\* calls and one refresh in total, and return the body of the second call
\* when that call answers 200.
C1_Original ==
  \A t \in Threads :
    (Ended(frame[t]) /\ ExpiredThenRefreshed(frame[t])) =>
      /\ Len(Https(frame[t])) = 2
      /\ Len(Refreshes(frame[t])) = 1
      /\ Answered(Https(frame[t])[2], {200}) =>
           frame[t].ret = Return(Https(frame[t])[2].response.json)

\* C1 (amended): when, in addition, __save_token stored the new token, the
\* HTTP call is retried exactly once (two HTTP calls in total); when the
\* retried call answers 200, exactly one refresh was made and _request
\* returns the parsed body of the retried call.
C1_RetryOnce ==
  \A t \in Threads :
    (/\ Ended(frame[t]) /\ ExpiredThenRefreshed(frame[t])
     /\ Len(frame[t].log) >= 3
     /\ frame[t].log[3].ev = "save_token" /\ frame[t].log[3].ok) =>
      /\ Len(Https(frame[t])) = 2
      /\ Answered(Https(frame[t])[2], {200}) =>
           /\ Len(Refreshes(frame[t])) = 1
           /\ frame[t].ret = Return(Https(frame[t])[2].response.json)

C1_Witness ==
  \E t \in Threads :
    /\ Ended(frame[t]) /\ ExpiredThenRefreshed(frame[t])
    /\ Len(Https(frame[t])) = 2
    /\ Answered(Https(frame[t])[2], {200})
    /\ Len(Refreshes(frame[t])) = 1
    /\ frame[t].ret = Return(Https(frame[t])[2].response.json)
    /\ frame[t].ret.value \in { [devices |-> inv] : inv \in Inventories \ {<<>>} }

\* ------------------------------------------------------------------- C2
\* C2: when both the first and the second HTTP attempt of a call raise
\* TokenExpiredError, the call fails with the "repeated expiry"
\* AuthorizationError and there is no third HTTP attempt.
C2_RepeatedExpiry ==
  \A t \in Threads :
    (/\ Ended(frame[t])
     /\ Len(Https(frame[t])) >= 2
     /\ Expired(Https(frame[t])[1]) /\ Expired(Https(frame[t])[2])) =>
      /\ frame[t].ret = AuthorizationError(None, "Repeated TokenExpiredError")
      /\ Len(Https(frame[t])) = 2

\* ------------------------------------------------------------------- C3
\* C3: a read of _devices starts a fetch exactly when the time read at the
\* test is strictly greater than last_update + cache_period, and never more
\* than one fetch; so reads inside the window after a fetch do not fetch and
\* the first read after the window fetches once.
C3_FetchIffStale ==
  \A t \in Threads :
    frame[t].op = "devices" =>
      /\ frame[t].fetches \in {0, 1}
      /\ frame[t].fetches = 1 <=> frame[t].now > frame[t].old.last_update + CachePeriod
      /\ frame[t].fetches = 0 => frame[t].log = <<>>

\* a read made exactly at last_update + cache_period, after an earlier
\* successful fetch, that did not fetch
C3_Witness ==
  \E t \in Threads :
    /\ frame[t].op = "devices" /\ frame[t].pc = "done"
    /\ frame[t].old.last_update > 0
    /\ frame[t].now = frame[t].old.last_update + CachePeriod
    /\ frame[t].fetches = 0
    /\ frame[t].out = Return(devices_value)

\* ------------------------------------------------------------------- C4
FetchFailed(fr) ==
  fr.op = "devices" /\ fr.pc = "done" /\ fr.fetches = 1 /\ ~HasDevices(fr.ret)

\* C4: when the fetch of a read fails (an exception of _request or a body
\* without a device list), the read returns the inventory stored before it,
\* raises nothing, leaves _devices_value and _last_update as they were, and
\* the next read of the same caller starts a fetch again.
C4_FailedFetchAbsorbed ==
  /\ [](\A t \in Threads :
          FetchFailed(frame[t]) =>
            /\ frame[t].out = Return(frame[t].old.devices_value)
            /\ devices_value = frame[t].old.devices_value
            /\ last_update = frame[t].old.last_update)
  /\ [][\A t \in Threads :
          (FetchFailed(frame[t]) /\ Devices(t)) =>
            (frame'[t].fetches = 1 /\ frame'[t].pc = "request")]_vars

\* a failed fetch (an APIError) that handed back a non-empty earlier inventory
C4_Witness ==
  \E t \in Threads :
    /\ FetchFailed(frame[t])
    /\ frame[t].ret.kind = "raise" /\ frame[t].ret.exc = "APIError"
    /\ frame[t].old.devices_value # <<>>
    /\ frame[t].out = Return(frame[t].old.devices_value)

\* ------------------------------------------------------------------- C5
\* C5 as stated: whenever a call that started on a session receives a 200,
\* it returns that body and has made exactly that one HTTP call, with no
\* refresh and no reauthorization.
C5_Original ==
  \A t \in Threads :
    (Ended(frame[t]) /\ frame[t].old.client # None) =>
      \A i \in 1..Len(Https(frame[t])) :
        Answered(Https(frame[t])[i], {200}) =>
          /\ frame[t].ret = Return(Https(frame[t])[i].response.json)
          /\ Len(Https(frame[t])) = 1
          /\ Refreshes(frame[t]) = <<>>
          /\ Reauthorizations(frame[t]) = <<>>

\* C5 (amended): a 200 answer to the first HTTP attempt is returned as its
\* parsed body and that HTTP call is all the call did; a 200 answer to the
\* retried attempt is returned as its parsed body too, and ends the call.
C5_Return200 ==
  \A t \in Threads :
    (Ended(frame[t]) /\ frame[t].old.client # None) =>
      \A i \in 1..Len(Https(frame[t])) :
        Answered(Https(frame[t])[i], {200}) =>
          /\ frame[t].ret = Return(Https(frame[t])[i].response.json)
          /\ i = Len(Https(frame[t]))
          /\ frame[t].log[Len(frame[t].log)] = Https(frame[t])[i]
          /\ i = 1 => frame[t].log = << Https(frame[t])[1] >>

C5_Witness ==
  \E t \in Threads :
    /\ Ended(frame[t]) /\ frame[t].old.client # None
    /\ Len(frame[t].log) = 1
    /\ frame[t].log[1].ev = "http" /\ Answered(frame[t].log[1], {200})
    /\ frame[t].ret = Return(frame[t].log[1].response.json)
    /\ frame[t].ret.value \in { [devices |-> inv] : inv \in Inventories \ {<<>>} }

\* ------------------------------------------------------------------- C6
\* C6: a response whose status is neither 200 nor 401 makes _request raise
\* APIError carrying that very response, and nothing follows it in the call:
\* no further HTTP call, no refresh, no reauthorization.
C6_APIError ==
  \A t \in Threads :
    Ended(frame[t]) =>
      \A i \in 1..Len(frame[t].log) :
        (/\ frame[t].log[i].ev = "http"
         /\ frame[t].log[i].outcome = "response"
         /\ frame[t].log[i].response.status_code \notin {200, 401}) =>
          /\ frame[t].ret = APIError(frame[t].log[i].response)
          /\ frame[t].ret.exc = "APIError"
          /\ i = Len(frame[t].log)

C6_Witness ==
  \E t \in Threads :
    /\ Ended(frame[t])
    /\ Len(frame[t].log) = 1
    /\ frame[t].log[1].ev = "http" /\ Answered(frame[t].log[1], {404})
    /\ frame[t].ret.kind = "raise" /\ frame[t].ret.exc = "APIError"
    /\ frame[t].ret.response = frame[t].log[1].response

\* ------------------------------------------------------------------- C7
\* the command was sent on a session and the server answered the first attempt
SentAndAnswered(fr) ==
  /\ fr.op = "set" /\ Ended(fr)
  /\ fr.old.client # None
  /\ fr.log # <<>>
  /\ fr.log[1].ev = "http" /\ fr.log[1].outcome = "response"

CommandBody(value) ==
  json_dumps([command |-> "sdm.devices.commands.ThermostatMode.SetHeat",
              params |-> [heatCelsius |-> value]])

\* the last '/'-separated segment of a device name
RECURSIVE LastSegment(_)
LastSegment(name) ==
  IF \E i \in 1..Len(name) : name[i] = "/"
  THEN LastSegment(Tail(name))
  ELSE name

C8_AtMostTwoHttpCalls ==
  \A t \in Threads :
    /\ Len(Https(frame[t])) <= 2
    /\ Len(Https(frame[t])) = 2 =>
         /\ Len(frame[t].log) >= 4
         /\ frame[t].log[1].ev = "http" /\ Expired(frame[t].log[1])
         /\ frame[t].log[2].ev = "refresh_token" /\ frame[t].log[2].ok
         /\ frame[t].log[3].ev = "save_token" /\ frame[t].log[3].ok
         /\ frame[t].log[4].ev = "http"

\* a call whose retry was answered 401 and which then ended
C8_Witness ==
  \E t \in Threads :
    /\ Ended(frame[t])
    /\ Len(Https(frame[t])) = 2
    /\ Answered(Https(frame[t])[2], {401})

\* ------------------------------------------------------------------- C9
\* C9: a call of _request on a manager without a session and without a
\* callback raises AuthorizationError, issues no HTTP call and leaves the
\* manager without a session.
C9_NoCallback ==
  \A t \in Threads :
    (Ended(frame[t]) /\ frame[t].old.client = None /\ ~callback) =>
      /\ frame[t].ret.kind = "raise"
      /\ frame[t].ret.exc = "AuthorizationError"
      /\ Https(frame[t]) = <<>>
      /\ client = None

C9_Witness ==
  \E t \in Threads :
    /\ Ended(frame[t]) /\ frame[t].old.client = None /\ ~callback
    /\ frame[t].ret = AuthorizationError(None, "No callback to handle OAuth URL")
    /\ frame[t].attempt = 1
    /\ client = None

\* ------------------------------------------------------------------ C10
\* C10: a call of _request on a manager without a session but with a
\* callback ends with the manager holding a session with a token, that token
\* in the cache file, and an HTTP call issued after the reauthorization.
C10_Reauthorized ==
  \A t \in Threads :
    (Ended(frame[t]) /\ frame[t].old.client = None /\ callback) =>
      /\ client # None
      /\ client.token # 0
      /\ cachePath => cacheFile = json_dump(client.token)
      /\ Https(frame[t]) # <<>>

\* ------------------------------------------------------------------ C11
\* C11: when refresh_token fails inside _request, the call fails with an
\* AuthorizationError and makes no further HTTP attempt.
C11_RefreshFailure ==
  \A t \in Threads :
    Ended(frame[t]) =>
      \A i \in 1..Len(frame[t].log) :
        (frame[t].log[i].ev = "refresh_token" /\ ~frame[t].log[i].ok) =>
          /\ frame[t].ret.kind = "raise"
          /\ frame[t].ret.exc = "AuthorizationError"
          /\ i = Len(frame[t].log)

\* ------------------------------------------------------------------ C14
\* C14: what __save_token wrote is read back as the same token: a manager
\* constructed with no token supplied on a cache file that holds the saved
\* token n starts with a session on token n, and right after a save the file
\* loads to the token that was saved; when the load fails (no path, no file,
\* an unreadable file) the manager is constructed without a session.
C14_RoundTrip ==
  \A t \in Threads :
    /\ (\A u \in Threads : frame[u].op = "__init__") =>
         /\ \A n \in 1..MaxTokens :
              (cachePath /\ cacheFile = << "{", "\"access_token\"", ":", n, "}" >>) =>
                client = [token |-> n]
         /\ (~cachePath \/ cacheFile \in {NoFile, <<>>}) => client = None
    /\ (/\ frame[t].log # <<>>
        /\ frame[t].log[Len(frame[t].log)].ev = "save_token"
        /\ frame[t].log[Len(frame[t].log)].ok) =>
         /\ CanParse(cacheFile)
         /\ json_load(cacheFile) = frame[t].token

\* a manager constructed on the file in which an earlier run saved token 2
C14_Witness ==
  \E t \in Threads :
    /\ \A u \in Threads : frame[u].op = "__init__"
    /\ frame[t].old.client # None /\ frame[t].old.client.token = 2
    /\ cacheFile = json_dump(2)
    /\ client # None /\ client.token = 2

\* ------------------------------------------------------------------ C15
RepeatedExpiry == AuthorizationError(None, "Repeated TokenExpiredError")

C16_Refresh401 ==
  \A t \in Threads :
    (/\ Ended(frame[t])
     /\ frame[t].log # <<>>
     /\ frame[t].log[1].ev = "http" /\ Answered(frame[t].log[1], {401})) =>
      /\ ~(frame[t].ret.kind = "raise" /\ frame[t].ret.exc = "APIError")
      /\ Len(Refreshes(frame[t])) = 1
      /\ Len(Https(frame[t])) = 2
      /\ Answered(Https(frame[t])[2], {200}) =>
           frame[t].ret = Return(Https(frame[t])[2].response.json)

\* ------------------------------------------------------------------ C17
\* C17: every refreshed token is handed to __save_token at once; an HTTP
\* call after the first one is issued only after a save that succeeded, and
\* at that point the cache file holds the new token; a save that fails (no
\* cache path, or an error on the file) ends _request with that error and no
\* retry.
C17_PersistBeforeRetry ==
  \A t \in Threads :
    \A i \in 1..Len(frame[t].log) :
      LET e == frame[t].log[i] IN
      /\ (e.ev = "refresh_token" /\ e.ok /\ i < Len(frame[t].log)) =>
           frame[t].log[i + 1].ev = "save_token"
      /\ (e.ev = "http" /\ i > 1) =>
           (frame[t].log[i - 1].ev = "save_token" /\ frame[t].log[i - 1].ok)
      /\ (e.ev = "save_token" /\ e.ok) => cachePath
      /\ (e.ev = "save_token" /\ e.ok /\ i = Len(frame[t].log)) =>
           /\ cacheFile = << "{", "\"access_token\"", ":", frame[t].token, "}" >>
           /\ client = [token |-> frame[t].token]
      /\ (e.ev = "save_token" /\ ~e.ok) =>
           /\ i = Len(frame[t].log)
           /\ frame[t].pc \in {"finish", "done"}
           /\ frame[t].ret.kind = "raise"
           /\ frame[t].ret.exc \in {"TypeError", "OSError"}

\* without a cache path: expiry, refresh, and the save raises out of _request
C17_Witness ==
  \E t \in Threads :
    /\ Ended(frame[t])
    /\ ~cachePath
    /\ Len(frame[t].log) = 3
    /\ frame[t].log[2].ev = "refresh_token" /\ frame[t].log[2].ok
    /\ frame[t].log[3].ev = "save_token" /\ ~frame[t].log[3].ok
    /\ frame[t].ret.kind = "raise" /\ frame[t].ret.exc = "TypeError"

\* ------------------------------------------------------------------ C19
\* C19: a reauthorization that fails, entered because the manager had no
\* session, leaves the manager without a session.
C19_FailedReauthorization ==
  \A t \in Threads :
    (/\ Ended(frame[t])
     /\ frame[t].old.client = None
     /\ Reauthorizations(frame[t]) # <<>>
     /\ frame[t].ret.kind = "raise") =>
      client = None

\* ------------------------------------------------------------------ C20
CommandDone(fr) == fr.op = "set" /\ fr.pc = "done"

\* C20: a command leaves _devices_value and _last_update as they were, so a
\* read inside the validity window after a command that succeeded does not
\* fetch and returns the inventory of before the command; the two fields
\* change only in the step that stores a successful fetch, which sets both
\* and moves _last_update forward.
C20_CommandKeepsCache ==
  /\ [](\A t \in Threads :
          frame[t].op = "set" =>
            /\ devices_value = frame[t].old.devices_value
            /\ last_update = frame[t].old.last_update)
  /\ [][\A t \in Threads :
          (/\ CommandDone(frame[t]) /\ frame[t].out.kind = "return"
           /\ clock <= last_update + CachePeriod
           /\ Devices(t)) =>
            /\ frame'[t].pc = "done" /\ frame'[t].fetches = 0
            /\ frame'[t].out = Return(frame[t].old.devices_value)]_vars
  /\ [][(devices_value' # devices_value \/ last_update' # last_update) =>
          \E t \in Threads :
            /\ frame[t].op = "devices" /\ frame[t].pc = "finish"
            /\ HasDevices(frame[t].ret)
            /\ devices_value' = frame[t].ret.value.devices
            /\ last_update' > last_update]_vars
  /\ [][\A t \in Threads :
          (frame[t].op = "devices" /\ frame[t].pc = "finish"
             /\ HasDevices(frame[t].ret) /\ frame'[t].pc = "done") =>
            (last_update' > last_update /\ devices_value' = frame[t].ret.value.devices)]_vars

\* a command that succeeded while the cache was fresh and not empty
C20_Witness ==
  \E t \in Threads :
    /\ CommandDone(frame[t]) /\ frame[t].out.kind = "return"
    /\ devices_value # <<>>
    /\ last_update > 0
    /\ clock <= last_update + CachePeriod
    /\ devices_value = frame[t].old.devices_value

\* ------------------------------------------------------------------ C13
\* the positions of the devices of a type in an inventory
OfType(inv, type) == { i \in 1..Len(inv) : inv[i].type = type }

\* C13: the thermostat accessor returns one Thermostat per device of the
\* inventory whose type is the thermostat type, in the inventory's order,
\* and nothing for a device of another type.
C13_Filter ==
  \A t \in Threads :
    frame[t].op = "thermostats" =>
      LET res == frame[t].out.value
          idx == OfType(devices_value, THERMOSTAT_TYPE)
      IN /\ frame[t].out.kind = "return"
         /\ Len(res) = Cardinality(idx)
         /\ \A k \in 1..Len(res) :
              \E i \in idx :
                /\ Cardinality({ j \in idx : j < i }) = k - 1
                /\ res[k] = [class |-> "Thermostat", name |-> devices_value[i].name]

\* two thermostats with a device of another type between them
C13_Witness ==
  \E t \in Threads :
    /\ frame[t].op = "thermostats"
    /\ Len(devices_value) = 3
    /\ OfType(devices_value, THERMOSTAT_TYPE) = {1, 3}
    /\ devices_value[1] # devices_value[3]
    /\ Len(frame[t].out.value) = 2

\* ------------------------------------------------------------------ C18
InRequest(fr) == fr.pc \notin {"idle", "finish", "done"}

\* C18: every call of _request ends, with a value or with an error, after
\* at most two passes of its loop, whatever the transport answers.
C18_Terminates ==
  /\ [](\A t \in Threads :
          /\ frame[t].attempt <= 2
          /\ frame[t].pc = "finish" => frame[t].ret.kind \in {"return", "raise"})
  /\ \A t \in Threads : InRequest(frame[t]) ~> frame[t].pc = "finish"

\* a call that was answered 401 has ended
C18_Witness ==
  \E t \in Threads :
    /\ frame[t].pc = "finish"
    /\ frame[t].log # <<>>
    /\ frame[t].log[1].ev = "http" /\ Answered(frame[t].log[1], {401})
    /\ frame[t].ret.kind = "raise"

\* ------------------------------------------------------------------ C12
\* the read of caller t fetched and stored an inventory
Stored(t) ==
  /\ frame[t].op = "devices" /\ frame[t].pc = "done"
  /\ frame[t].fetches = 1 /\ HasDevices(frame[t].ret)

\* two callers saw the same stale time stamp and both fetched and stored
DoubleFetch ==
  \E t, u \in Threads :
    /\ t # u /\ Stored(t) /\ Stored(u)
    /\ frame[t].old.last_update = frame[u].old.last_update

\* the inventory kept is that of the response that arrived first
StaleWins ==
  \E t, u \in Threads :
    /\ Stored(t) /\ Stored(u)
    /\ u \in frame[t].older
    /\ devices_value = frame[u].ret.value.devices
    /\ devices_value # frame[t].ret.value.devices

\* every refreshed token was saved, and the file does not hold the last one
TokenLost ==
  /\ \A t \in Threads :
       /\ frame[t].pc = "done"
       /\ \A i \in 1..Len(frame[t].log) :
            (frame[t].log[i].ev = "refresh_token" /\ frame[t].log[i].ok) =>
              /\ i < Len(frame[t].log)
              /\ frame[t].log[i + 1].ev = "save_token" /\ frame[t].log[i + 1].ok
  /\ issued > 1
  /\ cacheFile # json_dump(issued)

\* C12: when every operation runs under one mutex, no two reads fetch for
\* the same stale time stamp, the inventory kept is never that of an older
\* response, and the token file holds the last token obtained; without
\* serialization all three happen.
C12_Mutex ==
  (DoubleFetch \/ StaleWins \/ TokenLost) => callers = "free"

\* two unserialized readers: both fetch, the older response is stored last,
\* and the token file keeps the older of two refreshed tokens
C12_Witness ==
  /\ callers = "free"
  /\ DoubleFetch /\ StaleWins /\ TokenLost

====
